---- MODULE Spec2Model ----
(***************************************************************************)
(* gfx-debug-draw: the text batch renderer (src/src/text_renderer.rs) and  *)
(* the buffer grower (src/src/utils.rs) as a state machine.                *)
(*                                                                         *)
(* The renderer accumulates four vertices and six indices per character in *)
(* vertex_data / index_data (draw_text), and render grows the two GPU      *)
(* backing stores when needed, uploads the pending batch, sets the shader  *)
(* parameters, issues one draw and clears the batch.  render is modelled   *)
(* step by step at the granularity of its calls into the GPU backend and   *)
(* of the iterations of grow_buffer's while loop; the renderer is used by  *)
(* one thread (&mut self), so no append interleaves with a render.         *)
(*                                                                         *)
(* Init is a renderer that new has returned; SpecNew starts at the call of *)
(* new, whose link of the shader program can fail.  `store` keeps, for each*)
(* element of the two backing stores, which render wrote it (and for the   *)
(* index store the index written), so that a draw can be checked to read   *)
(* nothing an earlier render left behind.                                  *)
(*                                                                         *)
(* Integers are not wrapped: a Vec holds at most isize::MAX bytes, so the  *)
(* required byte count fits usize and a size below it doubles without      *)
(* overflow; pixel positions stay in the range i32 and f32 hold exactly.   *)
(***************************************************************************)
EXTENDS Integers, Sequences, FiniteSets, TLC

VARIABLES
    initial_buffer_size, \* argument of TextRenderer::new (kept for reference)
    vertex_data,         \* self.vertex_data : Vec<Vertex>
    index_data,          \* self.index_data  : Vec<u32>
    vertex_buffer,       \* self.vertex_buffer: [size] (byte size of the store)
    index_buffer,        \* self.index_buffer : [size]
    params,              \* self.params: [model_view_proj, screen_size]
    pc,                  \* position of the running call ("idle" between calls)
    gb,                  \* frame of grow_buffer: [for, elem, size, required_size_bytes]
    call,                \* the public call in progress or last completed: its name, its
                         \* arguments, what it found on entry and, for a render, the
                         \* size it read from its output target
    appended,            \* characters appended since the last render cleared the batch
    events,              \* GPU backend calls issued by that call so far, in order
    store                \* what the two backing stores hold: [vertex, index], each a
                         \* sequence of elements [by |-> "none"] (never written) or
                         \* [by, value], written by "this" render, the one in progress
                         \* or last completed, or by an "earlier" one

vars == << initial_buffer_size, vertex_data, index_data, vertex_buffer,
           index_buffer, params, pc, gb, call, appended, events, store >>

----------------------------------------------------------------------------
(* Bounds of the model *)

MaxInitialBufferSize == 2   \* initial_buffer_size ranges over 0..MaxInitialBufferSize
MaxTextLen == 2             \* longest text of one append call
MaxPendingGlyphs == 2       \* characters pending before a render is required
MaxSeed == 6                \* grow_buffer alone: byte size of the existing store
MaxElemSize == 3            \* grow_buffer alone: mem::size_of::<T>()
MaxRequired == 6            \* grow_buffer alone: required_size (elements)

(* Program constants *)

SizeOfVertex == 48          \* mem::size_of::<Vertex>(): 12 fields of 4 bytes
SizeOfU32 == 4              \* mem::size_of::<u32>()

MAT4_ID == << <<1, 0, 0, 0>>, <<0, 1, 0, 0>>, <<0, 0, 1, 0>>, <<0, 0, 0, 1>> >>

----------------------------------------------------------------------------
(* The bitmap font: BitmapFont { scale_w, scale_h, characters } and the     *)
(* inputs the callers draw from.                                           *)

Chars == {"A", "B", "?"}    \* "?" has no entry in the font

bitmap_font ==
    [ scale_w |-> 64, scale_h |-> 32,
      characters |->
        [ c \in {"A", "B"} |->
            IF c = "A"
            THEN [x |-> 0, y |-> 0, width |-> 8, height |-> 12,
                  xoffset |-> 1, yoffset |-> 2, xadvance |-> 10]
            ELSE [x |-> 8, y |-> 0, width |-> 6, height |-> 12,
                  xoffset |-> 0, yoffset |-> 3, xadvance |-> 7] ] ]

\* (variant: the placeholder is a blank of width 4 that advances the cursor)
default_character_blank ==
    [x |-> 0, y |-> 0, width |-> 4, height |-> 0,
     xoffset |-> 0, yoffset |-> 0, xadvance |-> 4]

\* Default::default() of a BitmapCharacter: every field zero
default_character ==
    [x |-> 0, y |-> 0, width |-> 0, height |-> 0,
     xoffset |-> 0, yoffset |-> 0, xadvance |-> 0]

Texts == UNION { [1..n -> Chars] : n \in 0..MaxTextLen }
ScreenPositions == { <<5, 3>> }
WorldPositions == { <<1, 2, 3>> }
Colors == { <<1, 0, 0, 1>> }
FrameSize == <<320, 240>>
OutputSizes == { <<640, 480>>, <<800, 600>> }
\* a projection other than the identity the parameters are built with
Projections == { << <<2, 0, 0, 0>>, <<0, 2, 0, 0>>, <<0, 0, 1, 0>>, <<0, 0, 0, 1>> >> }

NoFrame == [for |-> "none"]

----------------------------------------------------------------------------
(* Helpers of draw_text *)

\* self.bitmap_font.characters.get(&character), None => &default_character
lookup(character) ==
    IF character \in DOMAIN bitmap_font.characters
    THEN bitmap_font.characters[character]
    ELSE default_character

\* a as f32 / b: kept as the unevaluated quotient
Quot(a, b) == <<a, b>>

\* (variant: the top-right vertex pushed before the bottom-right one)
quad_vertices_tr_before_br(bc, x, y, world_position, screen_relative, color) ==
    LET x_offset == bc.xoffset + x
        y_offset == bc.yoffset + y
        scale_w  == bitmap_font.scale_w
        scale_h  == bitmap_font.scale_h
        V(px, py, tx, ty) ==
            [ position |-> <<px, py>>, color |-> color,
              texcoords |-> <<Quot(tx, scale_w), Quot(ty, scale_h)>>,
              world_position |-> world_position,
              screen_relative |-> screen_relative ]
    IN << V(x_offset, y_offset, bc.x, bc.y),
          V(x_offset, bc.height + y_offset, bc.x, bc.y + bc.height),
          V(bc.width + x_offset, y_offset, bc.x + bc.width, bc.y),
          V(bc.width + x_offset, bc.height + y_offset,
            bc.x + bc.width, bc.y + bc.height) >>

\* the four Vertex values pushed for one character, in push order
quad_vertices(bc, x, y, world_position, screen_relative, color) ==
    LET x_offset == bc.xoffset + x
        y_offset == bc.yoffset + y
        scale_w  == bitmap_font.scale_w
        scale_h  == bitmap_font.scale_h
        V(px, py, tx, ty) ==
            [ position |-> <<px, py>>, color |-> color,
              texcoords |-> <<Quot(tx, scale_w), Quot(ty, scale_h)>>,
              world_position |-> world_position,
              screen_relative |-> screen_relative ]
    IN << V(x_offset, y_offset, bc.x, bc.y),                                   \* 0 - top left
          V(x_offset, bc.height + y_offset, bc.x, bc.y + bc.height),           \* 1 - bottom left
          V(bc.width + x_offset, bc.height + y_offset,
            bc.x + bc.width, bc.y + bc.height),                                \* 2 - bottom right
          V(bc.width + x_offset, y_offset, bc.x + bc.width, bc.y) >>           \* 3 - top right

\* (variant: both triangles listed in the opposite direction)
quad_indices_reversed(index) ==
    << index + 0, index + 3, index + 1,
       index + 1, index + 3, index + 2 >>

\* (variant: the quad's indices counted from one)
quad_indices_from_one(index) ==
    << index + 1, index + 2, index + 4,
       index + 4, index + 2, index + 3 >>

\* the six indices pushed for one character whose first vertex is at `index`
quad_indices(index) ==
    << index + 0, index + 1, index + 3,
       index + 3, index + 1, index + 2 >>

\* (variant: the cursor advanced by the glyph's width)
advance_by_width(x, bc) == x + bc.width

\* x += bc.xadvance as i32
advance(x, bc) == x + bc.xadvance

\* the for loop of draw_text over text[i..], with cursor x: the new
\* [vertex_data, index_data]
RECURSIVE draw_text_loop(_, _, _, _, _, _, _, _, _)
draw_text_loop(text, i, x, y, world_position, screen_relative, color, vd, id) ==
    IF i > Len(text) THEN [vertex_data |-> vd, index_data |-> id]
    ELSE LET bc    == lookup(text[i])
             index == Len(vd)
         IN draw_text_loop(text, i + 1, advance(x, bc), y,
                           world_position, screen_relative, color,
                           vd \o quad_vertices(bc, x, y, world_position,
                                               screen_relative, color),
                           id \o quad_indices(index))

----------------------------------------------------------------------------
(* Helpers of render and grow_buffer *)

\* a store of `capacity` elements that nothing has been written to
uninitialized(capacity) == [i \in 1..capacity |-> [by |-> "none"]]

\* factory.update_buffer(buffer, data, 0): the elements of data written from
\* element 0 on, the elements behind them left as they were
update_buffer(slots, data) ==
    [i \in DOMAIN slots |->
        IF i <= Len(data) THEN [by |-> "this", value |-> data[i]] ELSE slots[i]]

\* the vertices as the vertex store keeps them: that an element was written
\* and by which call, not its fields
opaque(data) == [i \in 1..Len(data) |-> "Vertex"]

\* the elements of a store as a new render call finds them: what the last
\* render wrote is now the data of an earlier render
earlier(slots) ==
    [i \in DOMAIN slots |->
        IF slots[i].by = "this" THEN [slots[i] EXCEPT !.by = "earlier"] ELSE slots[i]]

\* Buffer::len(): the byte size over the element size
buffer_len(buffer, elem) == buffer.size \div elem

\* self.vertex_data.len() > self.vertex_buffer.len()
exceeds(len, capacity) == len > capacity

\* (variant: the element count taken for the byte count)
required_bytes_unscaled(required_size, elem) == required_size

\* required_size * mem::size_of::<T>()
required_bytes(required_size, elem) == required_size * elem

\* (variant: the loop also runs on equality)
grow_cond_or_equal(size, required_size_bytes) == size <= required_size_bytes

\* the loop condition of grow_buffer
grow_cond(size, required_size_bytes) == size < required_size_bytes

\* (variant: growth by half)
grown_by_half(size) == size + size \div 2

\* size *= 2
doubled(size) == size * 2

----------------------------------------------------------------------------
(* TextRenderer::new succeeded: the state after construction.  Both stores *)
(* are created for initial_buffer_size elements: create_buffer::<Vertex>(n) *)
(* and create_buffer_raw(n * size_of::<u32>()).                             *)

Init ==
    /\ initial_buffer_size \in 0..MaxInitialBufferSize
    /\ vertex_data = << >>
    /\ index_data = << >>
    /\ vertex_buffer = [size |-> initial_buffer_size * SizeOfVertex]
    /\ index_buffer = [size |-> initial_buffer_size * SizeOfU32]
    /\ params = [model_view_proj |-> MAT4_ID, screen_size |-> FrameSize]
    /\ pc = "idle"
    /\ gb = NoFrame
    /\ call = [op |-> "new"]
    /\ appended = 0
    /\ events = << >>
    /\ store = [vertex |-> uninitialized(initial_buffer_size),
                index |-> uninitialized(initial_buffer_size)]

----------------------------------------------------------------------------
(* draw_text and its two public entry points *)

\* (variant: the call starts its vertices and indices from empty lists)
draw_text_restarts(op, text, screen_position, world_position, screen_relative, color) ==
    /\ pc = "idle"
    /\ appended + Len(text) <= MaxPendingGlyphs
    /\ LET r == draw_text_loop(text, 1, screen_position[1], screen_position[2],
                               world_position, screen_relative, color,
                               << >>, << >>)
       IN /\ vertex_data' = r.vertex_data
          /\ index_data' = r.index_data
    /\ call' = [op |-> op, text |-> text, screen_position |-> screen_position,
                world_position |-> world_position,
                screen_relative |-> screen_relative, color |-> color,
                base |-> Len(vertex_data)]
    /\ appended' = appended + Len(text)
    /\ events' = << >>
    /\ UNCHANGED << initial_buffer_size, store, vertex_buffer, index_buffer, params,
                    pc, gb >>

draw_text(op, text, screen_position, world_position, screen_relative, color) ==
    /\ pc = "idle"
    /\ appended + Len(text) <= MaxPendingGlyphs    \* bound of the model
    /\ LET r == draw_text_loop(text, 1, screen_position[1], screen_position[2],
                               world_position, screen_relative, color,
                               vertex_data, index_data)
       IN /\ vertex_data' = r.vertex_data
          /\ index_data' = r.index_data
    /\ call' = [op |-> op, text |-> text, screen_position |-> screen_position,
                world_position |-> world_position,
                screen_relative |-> screen_relative, color |-> color,
                base |-> Len(vertex_data)]
    /\ appended' = appended + Len(text)
    /\ events' = << >>
    /\ UNCHANGED << initial_buffer_size, store, vertex_buffer, index_buffer, params,
                    pc, gb >>

\* (variant: world text flagged as screen-relative)
draw_text_at_position_flagged(text, world_position, color) ==
    draw_text("draw_text_at_position", text, <<0, 0>>, world_position, 1, color)

draw_text_at_position(text, world_position, color) ==
    draw_text("draw_text_at_position", text, <<0, 0>>, world_position, 0, color)

draw_text_on_screen(text, screen_position, color) ==
    draw_text("draw_text_on_screen", text, screen_position, <<0, 0, 0>>, 1, color)

----------------------------------------------------------------------------
(* grow_buffer *)

\* factory.create_buffer_raw(size, ..): a new handle of that byte size
create_buffer_raw(size) == [size |-> size]

\* the call grow_buffer::<R, F, T>(factory, buffer, required_size), up to the loop
grow_buffer_frame(for, buffer, elem, required_size) ==
    [ for |-> for, elem |-> elem, size |-> buffer.size,
      required_size_bytes |-> required_bytes(required_size, elem) ]

\* while size < required_size_bytes: the test; when it fails the new store
\* is created and returned to the caller, which installs it (render in
\* self.vertex_buffer or self.index_buffer; a caller of grow_buffer alone
\* in place of the store it passed)
grow_buffer_while ==
    /\ pc = "grow_test"
    /\ IF grow_cond(gb.size, gb.required_size_bytes)
       THEN /\ pc' = "grow_body"
            /\ UNCHANGED << vertex_buffer, index_buffer, gb, events, store >>
       ELSE /\ events' = Append(events, [op |-> "create_buffer_raw", for |-> gb.for,
                                         size |-> gb.size])
            /\ store' = [store EXCEPT ![IF gb.for = "index" THEN "index" ELSE "vertex"]
                                        = uninitialized(gb.size \div gb.elem)]
            /\ gb' = NoFrame
            /\ CASE gb.for = "vertex" ->
                      /\ vertex_buffer' = create_buffer_raw(gb.size)
                      /\ pc' = "index_check"
                      /\ UNCHANGED index_buffer
                 [] gb.for = "index" ->
                      /\ index_buffer' = create_buffer_raw(gb.size)
                      /\ pc' = "update_vertex"
                      /\ UNCHANGED vertex_buffer
                 [] OTHER ->
                      /\ vertex_buffer' = create_buffer_raw(gb.size)
                      /\ pc' = "returned"
                      /\ UNCHANGED index_buffer
    /\ UNCHANGED << initial_buffer_size, vertex_data, index_data, params,
                    call, appended >>

\* the loop body
grow_buffer_double ==
    /\ pc = "grow_body"
    /\ gb' = [gb EXCEPT !.size = doubled(gb.size)]
    /\ pc' = "grow_test"
    /\ UNCHANGED << initial_buffer_size, store, vertex_data, index_data, vertex_buffer,
                    index_buffer, params, call, appended, events >>

----------------------------------------------------------------------------
(* render *)

\* entry of render and its first test: grow the vertex store if the batch exceeds it
render(projection) ==
    /\ pc = "idle"
    /\ call' = [op |-> "render", projection |-> projection,
                after_render |-> (call.op = "render"),
                vertex_count |-> Len(vertex_data), index_count |-> Len(index_data),
                vertex_buffer |-> vertex_buffer, index_buffer |-> index_buffer,
                output |-> << >>]
    /\ events' = << >>
    /\ store' = [vertex |-> earlier(store.vertex), index |-> earlier(store.index)]
    /\ IF exceeds(Len(vertex_data), buffer_len(vertex_buffer, SizeOfVertex))
       THEN /\ gb' = grow_buffer_frame("vertex", vertex_buffer, SizeOfVertex,
                                       Len(vertex_data))
            /\ pc' = "grow_test"
       ELSE /\ pc' = "index_check"
            /\ UNCHANGED gb
    /\ UNCHANGED << initial_buffer_size, vertex_data, index_data, vertex_buffer,
                    index_buffer, params, appended >>

\* (variant: the index store is never grown)
render_index_check_never_grows ==
    /\ pc = "index_check"
    /\ pc' = "update_vertex"
    /\ UNCHANGED << initial_buffer_size, store, vertex_data, index_data, vertex_buffer,
                    index_buffer, params, gb, call, appended, events >>

\* the second test: grow the index store if the batch exceeds it
render_index_check ==
    /\ pc = "index_check"
    /\ IF exceeds(Len(index_data), buffer_len(index_buffer, SizeOfU32))
       THEN /\ gb' = grow_buffer_frame("index", index_buffer, SizeOfU32,
                                       Len(index_data))
            /\ pc' = "grow_test"
       ELSE /\ pc' = "update_vertex"
            /\ UNCHANGED gb
    /\ UNCHANGED << initial_buffer_size, store, vertex_data, index_data, vertex_buffer,
                    index_buffer, params, call, appended, events >>

\* factory.update_buffer(&self.vertex_buffer, &self.vertex_data[..], 0)
render_update_vertex ==
    /\ pc = "update_vertex"
    /\ events' = Append(events, [op |-> "update_buffer", for |-> "vertex",
                                 buffer |-> vertex_buffer, offset |-> 0,
                                 len |-> Len(vertex_data)])
    /\ store' = [store EXCEPT !.vertex = update_buffer(store.vertex,
                                                       opaque(vertex_data))]
    /\ pc' = "update_index"
    /\ UNCHANGED << initial_buffer_size, vertex_data, index_data, vertex_buffer,
                    index_buffer, params, gb, call, appended >>

\* (variant: the indices are not uploaded)
render_update_index_skipped ==
    /\ pc = "update_index"
    /\ pc' = "params"
    /\ UNCHANGED << initial_buffer_size, store, vertex_data, index_data, vertex_buffer,
                    index_buffer, params, gb, call, appended, events >>

\* factory.update_buffer_raw(&self.index_buffer.raw(), .., 0)
render_update_index ==
    /\ pc = "update_index"
    /\ events' = Append(events, [op |-> "update_buffer", for |-> "index",
                                 buffer |-> index_buffer, offset |-> 0,
                                 len |-> Len(index_data)])
    /\ store' = [store EXCEPT !.index = update_buffer(store.index, index_data)]
    /\ pc' = "params"
    /\ UNCHANGED << initial_buffer_size, vertex_data, index_data, vertex_buffer,
                    index_buffer, params, gb, call, appended >>

\* (variant: the viewport size is read but not stored in the parameters)
render_params_keeps_size(output) ==
    /\ pc = "params"
    /\ params' = [params EXCEPT !.model_view_proj = call.projection]
    /\ call' = [call EXCEPT !.output = output]
    /\ pc' = "draw"
    /\ UNCHANGED << initial_buffer_size, store, vertex_data, index_data, vertex_buffer,
                    index_buffer, gb, appended, events >>

\* self.params.screen_size = output.get_size(), read from the output target
\* here; self.params.model_view_proj = projection
render_params(output) ==
    /\ pc = "params"
    /\ params' = [model_view_proj |-> call.projection, screen_size |-> output]
    /\ call' = [call EXCEPT !.output = output]
    /\ pc' = "draw"
    /\ UNCHANGED << initial_buffer_size, store, vertex_data, index_data, vertex_buffer,
                    index_buffer, gb, appended, events >>

\* (variant: the slice covers the whole index store)
render_draw_whole_store ==
    /\ pc = "draw"
    /\ events' = Append(events,
                    [op |-> "draw", start |-> 0,
                     end |-> buffer_len(index_buffer, SizeOfU32),
                     prim_type |-> "TriangleList",
                     vertex_count |-> Len(vertex_data),
                     vertex_buffer |-> vertex_buffer,
                     index_buffer |-> index_buffer,
                     params |-> params])
    /\ pc' = "clear"
    /\ UNCHANGED << initial_buffer_size, store, vertex_data, index_data, vertex_buffer,
                    index_buffer, params, gb, call, appended >>

\* the mesh, the slice and renderer.draw(..)
render_draw ==
    /\ pc = "draw"
    /\ events' = Append(events,
                    [op |-> "draw", start |-> 0, end |-> Len(index_data),
                     prim_type |-> "TriangleList",
                     vertex_count |-> Len(vertex_data),
                     vertex_buffer |-> vertex_buffer,
                     index_buffer |-> index_buffer,
                     params |-> params])
    /\ pc' = "clear"
    /\ UNCHANGED << initial_buffer_size, store, vertex_data, index_data, vertex_buffer,
                    index_buffer, params, gb, call, appended >>

\* (variant: vertex_data is not cleared)
render_clear_keeps_vertices ==
    /\ pc = "clear"
    /\ index_data' = << >>
    /\ appended' = 0
    /\ pc' = "idle"
    /\ UNCHANGED << initial_buffer_size, store, vertex_data, vertex_buffer, index_buffer,
                    params, gb, call, events >>

\* (variant: index_data is not cleared)
render_clear_keeps_indices ==
    /\ pc = "clear"
    /\ vertex_data' = << >>
    /\ appended' = 0
    /\ pc' = "idle"
    /\ UNCHANGED << initial_buffer_size, store, index_data, vertex_buffer, index_buffer,
                    params, gb, call, events >>

\* self.vertex_data.clear(); self.index_data.clear(); and render returns
render_clear ==
    /\ pc = "clear"
    /\ vertex_data' = << >>
    /\ index_data' = << >>
    /\ appended' = 0
    /\ pc' = "idle"
    /\ UNCHANGED << initial_buffer_size, store, vertex_buffer, index_buffer, params,
                    gb, call, events >>

----------------------------------------------------------------------------
(* The renderer *)

AppendCall ==
    \/ \E text \in Texts, world_position \in WorldPositions, color \in Colors :
          draw_text_at_position(text, world_position, color)
    \/ \E text \in Texts, screen_position \in ScreenPositions, color \in Colors :
          draw_text_on_screen(text, screen_position, color)

RenderCall == \E projection \in Projections : render(projection)

\* the steps of a render in progress: it runs to completion once called
RenderStep ==
    \/ grow_buffer_while
    \/ grow_buffer_double
    \/ render_index_check
    \/ render_update_vertex
    \/ render_update_index
    \/ \E output \in OutputSizes : render_params(output)
    \/ render_draw
    \/ render_clear

Next == AppendCall \/ RenderCall \/ RenderStep

Spec == Init /\ [][Next]_vars

FairSpec == Spec /\ WF_vars(RenderStep)

----------------------------------------------------------------------------
(* TextRenderer::new, from the call on: the program is linked first, and   *)
(* the stores and the sampler are created only once that has succeeded     *)

\* the fields of a renderer that does not exist
NoRenderer == [renderer |-> "none"]

\* values of gfx::ProgramError
ProgramErrors == {"ProgramError1", "ProgramError2"}

\* what factory.link_program_source can return
LinkOutcomes == {[ok |-> TRUE]} \cup {[ok |-> FALSE, err |-> e] : e \in ProgramErrors}

InitNew ==
    /\ initial_buffer_size \in 0..MaxInitialBufferSize
    /\ vertex_data = << >>
    /\ index_data = << >>
    /\ vertex_buffer = NoRenderer
    /\ index_buffer = NoRenderer
    /\ params = NoRenderer
    /\ pc = "new"
    /\ gb = NoFrame
    /\ call = [op |-> "new", result |-> "running"]
    /\ appended = 0
    /\ events = << >>
    /\ store = [vertex |-> << >>, index |-> << >>]

\* (variant: the stores are created before the program is linked)
new_link_after_buffers(outcome) ==
    /\ pc = "new"
    /\ events' = << [op |-> "create_buffer", for |-> "vertex",
                     size |-> initial_buffer_size * SizeOfVertex],
                    [op |-> "create_buffer_raw", for |-> "index",
                     size |-> initial_buffer_size * SizeOfU32],
                    [op |-> "link_program_source", result |-> outcome] >>
    /\ IF outcome.ok
       THEN pc' = "new_buffers" /\ UNCHANGED call
       ELSE pc' = "new_err" /\ call' = [call EXCEPT !.result = outcome]
    /\ UNCHANGED << initial_buffer_size, store, vertex_data, index_data, vertex_buffer,
                    index_buffer, params, gb, appended >>

\* factory.link_program_source(..): Ok(program_handle) goes on,
\* Err(e) => return Err(e)
new_link(outcome) ==
    /\ pc = "new"
    /\ events' = << [op |-> "link_program_source", result |-> outcome] >>
    /\ IF outcome.ok
       THEN pc' = "new_buffers" /\ UNCHANGED call
       ELSE pc' = "new_err" /\ call' = [call EXCEPT !.result = outcome]
    /\ UNCHANGED << initial_buffer_size, store, vertex_data, index_data, vertex_buffer,
                    index_buffer, params, gb, appended >>

\* the vertex store, the index store and the sampler are created and
\* Ok(TextRenderer { .. }) is returned
new_create ==
    /\ pc = "new_buffers"
    /\ events' = events \o
          << [op |-> "create_buffer", for |-> "vertex",
              size |-> initial_buffer_size * SizeOfVertex],
             [op |-> "create_buffer_raw", for |-> "index",
              size |-> initial_buffer_size * SizeOfU32],
             [op |-> "create_sampler"] >>
    /\ vertex_buffer' = [size |-> initial_buffer_size * SizeOfVertex]
    /\ index_buffer' = create_buffer_raw(initial_buffer_size * SizeOfU32)
    /\ store' = [vertex |-> uninitialized(initial_buffer_size),
                 index |-> uninitialized(initial_buffer_size)]
    /\ params' = [model_view_proj |-> MAT4_ID, screen_size |-> FrameSize]
    /\ call' = [call EXCEPT !.result = [ok |-> TRUE]]
    /\ pc' = "idle"
    /\ UNCHANGED << initial_buffer_size, vertex_data, index_data, gb, appended >>

NewStep == (\E outcome \in LinkOutcomes : new_link(outcome)) \/ new_create

\* a renderer from the call of new on: no call is possible on a renderer
\* that new did not return
NextNew == NewStep \/ Next

SpecNew == InitNew /\ [][NextNew]_vars

----------------------------------------------------------------------------
(* grow_buffer on its own: any existing store, element size and required   *)
(* element count                                                           *)

InitGrow ==
    /\ initial_buffer_size = 0
    /\ vertex_data = << >>
    /\ index_data = << >>
    /\ \E s \in 0..MaxSeed, e \in 1..MaxElemSize, r \in 0..MaxRequired :
          /\ vertex_buffer = [size |-> s]
          /\ call = [op |-> "grow_buffer", size |-> s, elem |-> e, required_size |-> r]
          /\ gb = grow_buffer_frame("caller", vertex_buffer, e, r)
    /\ index_buffer = [size |-> 0]
    /\ params = [model_view_proj |-> MAT4_ID, screen_size |-> FrameSize]
    /\ pc = "grow_test"
    /\ appended = 0
    /\ events = << >>
    /\ store = [vertex |-> uninitialized(buffer_len(vertex_buffer, call.elem)),
                index |-> uninitialized(0)]

NextGrow == grow_buffer_while \/ grow_buffer_double

SpecGrow == InitGrow /\ [][NextGrow]_vars

FairSpecGrow == SpecGrow /\ WF_vars(NextGrow)

----------------------------------------------------------------------------
(* Properties *)

IsAppend == call.op \in {"draw_text_at_position", "draw_text_on_screen"}

\* number of events of the call with the given op on the given store
Count(op, for) ==
    Cardinality({ i \in DOMAIN events : events[i].op = op /\ events[i].for = for })

Draws == { i \in DOMAIN events : events[i].op = "draw" }

ElemSize(for) == IF for = "vertex" THEN SizeOfVertex ELSE SizeOfU32

RECURSIVE IsPow2Multiple(_, _)
IsPow2Multiple(n, s) ==
    \/ n = s
    \/ n > s /\ n % 2 = 0 /\ IsPow2Multiple(n \div 2, s)

RECURSIVE Pow2(_)
Pow2(k) == IF k = 0 THEN 1 ELSE 2 * Pow2(k - 1)

\* C1: the pending vertex list holds 4 x N and the pending index list 6 x N
\* entries, N the characters appended since the last render (or since
\* construction); both are empty right after a render, and only an append
\* makes either longer.
C1_PendingCounts ==
    /\ [](/\ Len(vertex_data) = 4 * appended
          /\ Len(index_data) = 6 * appended
          /\ (pc = "idle" /\ call.op = "render"
                => vertex_data = << >> /\ index_data = << >>))
    /\ [][ Len(vertex_data') > Len(vertex_data) \/ Len(index_data') > Len(index_data)
             => AppendCall ]_vars

\* two characters pending after an earlier render
C1_Witness ==
    /\ pc = "idle" /\ IsAppend
    /\ params.screen_size # FrameSize
    /\ appended = 2 /\ Len(vertex_data) = 8 /\ Len(index_data) = 12

\* C2: every pending index is a position of the pending vertex list
C2_IndicesInRange ==
    \A i \in DOMAIN index_data :
        0 <= index_data[i] /\ index_data[i] < Len(vertex_data)

\* the last index of a second glyph refers to its bottom-right vertex
C2_Witness ==
    Len(index_data) = 12 /\ index_data[12] = 6 /\ Len(vertex_data) = 8

\* C3: whenever render uploads, each store holds at least the pending count
C3_CapacityAtUpload ==
    /\ pc \in {"update_vertex", "update_index"} =>
          /\ buffer_len(vertex_buffer, SizeOfVertex) >= Len(vertex_data)
          /\ buffer_len(index_buffer, SizeOfU32) >= Len(index_data)
    /\ \A i \in DOMAIN events :
          events[i].op = "update_buffer" =>
              buffer_len(events[i].buffer, ElemSize(events[i].for)) >= events[i].len

\* both stores were grown in this render, and the batch of two glyphs uploaded
C3_Witness ==
    /\ pc = "params"
    /\ Count("create_buffer_raw", "vertex") = 1
    /\ Count("create_buffer_raw", "index") = 1
    /\ \E i \in DOMAIN events :
          events[i].op = "update_buffer" /\ events[i].for = "index" /\ events[i].len = 12

\* C4: grow_buffer terminates for every input with a store of at least the
\* required bytes; in particular from a store of 0 bytes with a required
\* count > 0 it reaches a positive capacity.
C4_GrowBufferTerminates ==
    <>(/\ pc = "returned"
       /\ vertex_buffer.size >= call.required_size * call.elem
       /\ (call.required_size > 0 => vertex_buffer.size > 0))

\* C5: from a nonzero size s, for element size e and required count r > 0,
\* grow_buffer allocates s * 2^k for the smallest k >= 0 with s * 2^k >= r * e
\* (equality stops the doubling; k = 0 when s suffices).
C5_SmallestDoubling ==
    pc = "returned" /\ call.size > 0 /\ call.required_size > 0 =>
        LET s == call.size
            b == call.required_size * call.elem
            k == CHOOSE j \in 0..b :
                    /\ s * Pow2(j) >= b
                    /\ \A h \in 0..(j - 1) : s * Pow2(h) < b
        IN /\ vertex_buffer.size = s * Pow2(k)
           /\ events = << [op |-> "create_buffer_raw", for |-> "caller",
                           size |-> s * Pow2(k)] >>

\* 3 bytes, elements of 2 bytes, 6 required: 3 * 2^2 = 12 is exactly 6 * 2
C5_Witness ==
    /\ pc = "returned"
    /\ call.size = 3 /\ call.elem = 2 /\ call.required_size = 6
    /\ vertex_buffer.size = 12

\* C6: the byte capacity of either store never decreases and is always its
\* capacity at construction times a power of two
C6_CapacityMonotone ==
    /\ [](/\ IsPow2Multiple(vertex_buffer.size, initial_buffer_size * SizeOfVertex)
          /\ IsPow2Multiple(index_buffer.size, initial_buffer_size * SizeOfU32))
    /\ [][ /\ vertex_buffer'.size >= vertex_buffer.size
           /\ index_buffer'.size >= index_buffer.size ]_vars

\* built for 2 elements, after a batch of two glyphs: 96 * 4 and 8 * 8 bytes
C6_Witness ==
    /\ pc = "idle" /\ initial_buffer_size = 2
    /\ vertex_buffer.size = 384 /\ index_buffer.size = 64

InRender == call.op = "render" /\ pc # "idle"

RenderDone == call.op = "render" /\ pc = "idle"

\* the test of render on the state it was entered in
ExceededAtEntry(for) ==
    IF for = "vertex"
    THEN call.vertex_count > buffer_len(call.vertex_buffer, SizeOfVertex)
    ELSE call.index_count > buffer_len(call.index_buffer, SizeOfU32)

Capacity(for) ==
    IF for = "vertex" THEN buffer_len(vertex_buffer, SizeOfVertex)
    ELSE buffer_len(index_buffer, SizeOfU32)

\* what C7 says of the replacements a render has made, in any state of a
\* render: at most one per store, none for a store that was not exceeded,
\* none after an upload, and once the uploads begin exactly one per exceeded
\* store, each leaving room for the batch
C7_ReplacementsSoFar ==
    call.op = "render" =>
        /\ \A for \in {"vertex", "index"} :
              /\ Count("create_buffer_raw", for) <= 1
              /\ ~ExceededAtEntry(for) => Count("create_buffer_raw", for) = 0
              /\ pc \in {"update_vertex", "update_index", "params", "draw", "clear", "idle"}
                    => /\ Count("create_buffer_raw", for)
                            = (IF ExceededAtEntry(for) THEN 1 ELSE 0)
                       /\ Capacity(for) >= (IF for = "vertex" THEN call.vertex_count
                                            ELSE call.index_count)
        /\ \A i, j \in DOMAIN events :
              events[i].op = "update_buffer" /\ events[j].op = "create_buffer_raw"
                  => j < i

\* C7: in one render, a store whose capacity the pending count exceeds is
\* replaced exactly once, before the upload, by one large enough; a store
\* that is not exceeded is not replaced.
C7_ReplacedOnceIfExceeded ==
    /\ []C7_ReplacementsSoFar
    /\ [](InRender /\ ExceededAtEntry("vertex")
            => <>(Count("create_buffer_raw", "vertex") = 1
                    /\ Capacity("vertex") >= call.vertex_count))
    /\ [](InRender /\ ExceededAtEntry("index")
            => <>(Count("create_buffer_raw", "index") = 1
                    /\ Capacity("index") >= call.index_count))

\* C8: a render right after a render, with no append between, draws the
\* index range 0..0 and leaves both capacities and the empty batch as they were
C8_SecondRenderIsEmptyDraw ==
    RenderDone /\ call.after_render =>
        /\ events = << [op |-> "update_buffer", for |-> "vertex",
                        buffer |-> call.vertex_buffer, offset |-> 0, len |-> 0],
                       [op |-> "update_buffer", for |-> "index",
                        buffer |-> call.index_buffer, offset |-> 0, len |-> 0],
                       events[3] >>
        /\ events[3].op = "draw" /\ events[3].start = 0 /\ events[3].end = 0
        /\ vertex_buffer = call.vertex_buffer
        /\ index_buffer = call.index_buffer
        /\ call.vertex_count = 0 /\ call.index_count = 0
        /\ vertex_data = << >> /\ index_data = << >>

\* a second render in a row, on stores an earlier batch had grown
C8_Witness ==
    /\ RenderDone /\ call.after_render
    /\ initial_buffer_size = 1
    /\ vertex_buffer.size = 384 /\ index_buffer.size = 64

\* what C9 says of the draws a call has issued, in any state: an append
\* issues none, a render at most one, of the triangle list over the index
\* range 0 .. index count at its entry, and exactly one once it is past its draw
C9_DrawsSoFar ==
    /\ IsAppend => Draws = {}
    /\ call.op = "render" =>
          /\ Cardinality(Draws) <= 1
          /\ \A i \in Draws :
                /\ events[i].start = 0
                /\ events[i].end = call.index_count
                /\ events[i].prim_type = "TriangleList"
          /\ pc \in {"clear", "idle"} => Cardinality(Draws) = 1

\* C9: every render call issues exactly one draw, a triangle-list draw of
\* the index range 0 .. (pending index count at its start), also for an
\* empty batch; an append issues none.
C9_OneDrawPerRender ==
    /\ []C9_DrawsSoFar
    /\ [](InRender => <>(RenderDone /\ Cardinality(Draws) = 1))

\* the sum of xadvance over the first n characters of text
RECURSIVE SumAdvance(_, _)
SumAdvance(text, n) ==
    IF n = 0 THEN 0 ELSE SumAdvance(text, n - 1) + lookup(text[n]).xadvance

\* x of the top-left and of the bottom-left vertex of the g-th glyph of vd
LeftEdgeIs(vd, g, x) ==
    /\ vd[4 * (g - 1) + 1].position[1] = x
    /\ vd[4 * (g - 1) + 2].position[1] = x

\* C10 as stated: in one append call the k-th character's quad has its left
\* edge at the cursor, the caller's horizontal position plus the xadvance of
\* the characters before it in the same call.
C10_LeftEdgeAtCursor ==
    IsAppend =>
        \A k \in 1..Len(call.text) :
            LeftEdgeIs(vertex_data, call.base \div 4 + k,
                       call.screen_position[1] + SumAdvance(call.text, k - 1))

\* C10 amended: the left edge is at the cursor plus the glyph's xoffset; the
\* cursor is the caller's horizontal position plus the xadvance of the
\* characters before it in the same call, whatever was appended before.
C10_LeftEdgeAtCursorPlusOffset ==
    IsAppend =>
        \A k \in 1..Len(call.text) :
            LeftEdgeIs(vertex_data, call.base \div 4 + k,
                       call.screen_position[1] + SumAdvance(call.text, k - 1)
                         + lookup(call.text[k]).xoffset)

\* "AB" appended at x = 0 in one call: A (xoffset 1) has its left edge at 1,
\* B (xoffset 0) at 10, the xadvance of A
C10_Witness ==
    /\ pc = "idle" /\ call.op = "draw_text_at_position"
    /\ call.text = <<"A", "B">> /\ call.screen_position[1] = 0 /\ call.base = 0
    /\ LeftEdgeIs(vertex_data, 1, 1)
    /\ LeftEdgeIs(vertex_data, 2, 10)


\* the metrics the font's table gives for character c, all zero for a
\* character the table lacks
TableMetric(c) ==
    IF c \in DOMAIN bitmap_font.characters
    THEN bitmap_font.characters[c]
    ELSE [x |-> 0, y |-> 0, width |-> 0, height |-> 0,
          xoffset |-> 0, yoffset |-> 0, xadvance |-> 0]

\* the sum of the table's xadvance over the first n characters of text
RECURSIVE TableAdvance(_, _)
TableAdvance(text, n) ==
    IF n = 0 THEN 0 ELSE TableAdvance(text, n - 1) + TableMetric(text[n]).xadvance

\* the j-th vertex (1..4) of the g-th pending glyph (1..)
GlyphVertex(g, j) == vertex_data[4 * (g - 1) + j]

\* the number of the pending glyph that the k-th character of the last
\* append made
GlyphOfCall(k) == call.base \div 4 + k

\* C11: a character the font lacks is appended like any other, as 4 vertices
\* and 6 indices, all 4 vertices at the cursor (a quad of size zero), and it
\* leaves the cursor where it was: the next character starts at the same x.
C11_AbsentCharacterIsZeroQuad ==
    IsAppend =>
        /\ Len(vertex_data) = call.base + 4 * Len(call.text)
        /\ Len(index_data) = 6 * (call.base \div 4) + 6 * Len(call.text)
        /\ \A k \in 1..Len(call.text) :
              call.text[k] \notin DOMAIN bitmap_font.characters =>
                  LET cursor == << call.screen_position[1]
                                     + TableAdvance(call.text, k - 1),
                                   call.screen_position[2] >>
                  IN /\ \A j \in 1..4 :
                           GlyphVertex(GlyphOfCall(k), j).position = cursor
                     /\ k < Len(call.text) =>
                           GlyphVertex(GlyphOfCall(k) + 1, 1).position
                             = << cursor[1] + TableMetric(call.text[k + 1]).xoffset,
                                  cursor[2] + TableMetric(call.text[k + 1]).yoffset >>

\* "?A" on screen at (5, 3): the four vertices of ? are at (5, 3) and A,
\* with offsets (1, 2), has its top-left vertex at (6, 5)
C11_Witness ==
    /\ call.op = "draw_text_on_screen" /\ call.text = <<"?", "A">>
    /\ call.base = 0 /\ Len(vertex_data) = 8 /\ Len(index_data) = 12
    /\ \A j \in 1..4 : vertex_data[j].position = <<5, 3>>
    /\ vertex_data[5].position = <<6, 5>>

\* twice the signed area of the triangle p, q, r; with y pointing down a
\* negative value is the counter-clockwise order, zero a triangle of no area
Orient(p, q, r) ==
    (q[1] - p[1]) * (r[2] - p[2]) - (r[1] - p[1]) * (q[2] - p[2])

\* Orient of the t-th triangle (1..2) of the g-th pending glyph, its corners
\* read through the pending indices
TriangleOrient(g, t) ==
    LET P(j) == vertex_data[index_data[6 * (g - 1) + 3 * (t - 1) + j] + 1].position
    IN Orient(P(1), P(2), P(3))

\* C12 as stated: both triangles of any appended glyph are counter-clockwise
\* in the plane with y pointing down.
C12_BothTrianglesCCW ==
    \A g \in 1..appended, t \in 1..2 : TriangleOrient(g, t) < 0

\* C12 amended: no triangle of a pending glyph is clockwise, the two of a
\* glyph agree, and they are counter-clockwise exactly for a glyph whose
\* width and height are both positive; a glyph of zero width or height, as
\* the placeholder of a character the font lacks, gives two triangles of no
\* area.
C12_CCWUnlessDegenerate ==
    /\ \A g \in 1..appended :
          TriangleOrient(g, 1) = TriangleOrient(g, 2) /\ TriangleOrient(g, 1) <= 0
    /\ IsAppend =>
          \A k \in 1..Len(call.text), t \in 1..2 :
              LET m == TableMetric(call.text[k])
              IN TriangleOrient(GlyphOfCall(k), t) = 0 - m.width * m.height

\* "A?" in one call: A, 8 by 12, has both triangles counter-clockwise, the
\* placeholder of ? has two triangles of no area
C12_Witness ==
    /\ IsAppend /\ call.text = <<"A", "?">> /\ call.base = 0
    /\ TriangleOrient(1, 1) = 0 - 96 /\ TriangleOrient(1, 2) = 0 - 96
    /\ TriangleOrient(2, 1) = 0 /\ TriangleOrient(2, 2) = 0

\* C14: counting from 0 the glyphs appended since the last render, over all
\* append calls in call order, glyph i has its vertices at 4i..4i+3 in the
\* order top-left, bottom-left, bottom-right, top-right, and the indices at
\* 6i..6i+5 are (4i, 4i+1, 4i+3, 4i+3, 4i+1, 4i+2).
C14_GlyphLayout ==
    /\ Len(vertex_data) = 4 * appended /\ Len(index_data) = 6 * appended
    /\ \A i \in 0..(appended - 1) :
          /\ SubSeq(index_data, 6 * i + 1, 6 * i + 6)
               = << 4 * i, 4 * i + 1, 4 * i + 3, 4 * i + 3, 4 * i + 1, 4 * i + 2 >>
          /\ LET tl == GlyphVertex(i + 1, 1)
                 bl == GlyphVertex(i + 1, 2)
                 br == GlyphVertex(i + 1, 3)
                 tr == GlyphVertex(i + 1, 4)
             IN /\ tl.position[1] = bl.position[1] /\ tr.position[1] = br.position[1]
                /\ tl.position[2] = tr.position[2] /\ bl.position[2] = br.position[2]
                /\ tl.position[1] <= tr.position[1] /\ tl.position[2] <= bl.position[2]
                /\ tl.texcoords[1] = bl.texcoords[1] /\ tr.texcoords[1] = br.texcoords[1]
                /\ tl.texcoords[2] = tr.texcoords[2] /\ bl.texcoords[2] = br.texcoords[2]
    /\ IsAppend =>
          /\ call.base = 4 * (appended - Len(call.text))
          /\ \A k \in 1..Len(call.text) :
                LET m  == TableMetric(call.text[k])
                    g  == GlyphOfCall(k)
                    x0 == call.screen_position[1] + TableAdvance(call.text, k - 1)
                            + m.xoffset
                    y0 == call.screen_position[2] + m.yoffset
                IN /\ GlyphVertex(g, 1).position = <<x0, y0>>
                   /\ GlyphVertex(g, 2).position = <<x0, y0 + m.height>>
                   /\ GlyphVertex(g, 3).position = <<x0 + m.width, y0 + m.height>>
                   /\ GlyphVertex(g, 4).position = <<x0 + m.width, y0>>

\* "A" then "B" in two calls: B is glyph 1, its vertices at 4..7 and its
\* indices at 6..11, its bottom-right vertex at (6, 15)
C14_Witness ==
    /\ IsAppend /\ call.text = <<"B">> /\ call.base = 4 /\ appended = 2
    /\ call.op = "draw_text_at_position"
    /\ SubSeq(index_data, 7, 12) = <<4, 5, 7, 7, 5, 6>>
    /\ vertex_data[7].position = <<6, 15>>
    /\ vertex_data[1].position = <<1, 2>>


\* a step of an append call: the only steps that leave the renderer idle
\* with an append as the last call
AppendStep == pc = "idle" /\ IsAppend'

\* C17: an append call adds entries only at the end of the two pending lists;
\* what was pending keeps its value and place, and the backing stores (so
\* their capacities) and the shader parameters stay as they were.
C17_AppendOnlyExtends ==
    [][ AppendStep =>
          /\ Len(vertex_data') = Len(vertex_data) + 4 * Len(call'.text)
          /\ Len(index_data') = Len(index_data) + 6 * Len(call'.text)
          /\ SubSeq(vertex_data', 1, Len(vertex_data)) = vertex_data
          /\ SubSeq(index_data', 1, Len(index_data)) = index_data
          /\ vertex_buffer' = vertex_buffer
          /\ index_buffer' = index_buffer
          /\ params' = params ]_vars

\* an append onto a pending glyph, on stores an earlier render had grown and
\* parameters an earlier render had set
C17_Witness ==
    /\ pc = "idle" /\ IsAppend /\ call.base = 4 /\ Len(call.text) = 1
    /\ Len(vertex_data) = 8 /\ Len(index_data) = 12
    /\ vertex_buffer.size > initial_buffer_size * SizeOfVertex
    /\ params.screen_size # FrameSize

\* the position of corner j (1 top-left, 2 bottom-left, 3 bottom-right,
\* 4 top-right) of the k-th character of text laid out from pixel `origin`
Corner(text, k, j, origin) ==
    LET m  == TableMetric(text[k])
        x0 == origin[1] + TableAdvance(text, k - 1) + m.xoffset
        y0 == origin[2] + m.yoffset
    IN << IF j \in {1, 2} THEN x0 ELSE x0 + m.width,
          IF j \in {1, 4} THEN y0 ELSE y0 + m.height >>

\* the vertices a step has added
NewVertices == SubSeq(vertex_data', Len(vertex_data) + 1, Len(vertex_data'))

\* C18: draw_text_on_screen emits vertices of flag 1 and world position
\* (0,0,0), laid out from the caller's screen position; draw_text_at_position
\* emits vertices of flag 0 with the caller's world position, laid out from
\* pixel (0,0); the 4 vertices of a glyph share colour, world position and flag.
C18_AnchoringPerEntryPoint ==
    /\ [](\A g \in 1..appended, j \in 2..4 :
             /\ GlyphVertex(g, j).color = GlyphVertex(g, 1).color
             /\ GlyphVertex(g, j).world_position = GlyphVertex(g, 1).world_position
             /\ GlyphVertex(g, j).screen_relative = GlyphVertex(g, 1).screen_relative)
    /\ [][ AppendStep =>
             LET text == call'.text
             IN /\ \A screen_position \in ScreenPositions, color \in Colors :
                      draw_text_on_screen(text, screen_position, color) =>
                          /\ Len(NewVertices) = 4 * Len(text)
                          /\ \A k \in 1..Len(text), j \in 1..4 :
                                LET v == NewVertices[4 * (k - 1) + j]
                                IN /\ v.screen_relative = 1
                                   /\ v.world_position = <<0, 0, 0>>
                                   /\ v.color = color
                                   /\ v.position = Corner(text, k, j, screen_position)
                /\ \A world_position \in WorldPositions, color \in Colors :
                      draw_text_at_position(text, world_position, color) =>
                          /\ Len(NewVertices) = 4 * Len(text)
                          /\ \A k \in 1..Len(text), j \in 1..4 :
                                LET v == NewVertices[4 * (k - 1) + j]
                                IN /\ v.screen_relative = 0
                                   /\ v.world_position = world_position
                                   /\ v.color = color
                                   /\ v.position = Corner(text, k, j, <<0, 0>>)
                /\ \/ \E screen_position \in ScreenPositions, color \in Colors :
                         draw_text_on_screen(text, screen_position, color)
                   \/ \E world_position \in WorldPositions, color \in Colors :
                         draw_text_at_position(text, world_position, color) ]_vars

\* "A" on screen at (5, 3), then "A" at world position (1, 2, 3): the first
\* quad has flag 1, world position 0 and its top-left at (6, 5), the second
\* flag 0, the world position and its top-left at (1, 2)
C18_Witness ==
    /\ pc = "idle" /\ call.op = "draw_text_at_position" /\ Len(vertex_data) = 8
    /\ vertex_data[1].screen_relative = 1
    /\ vertex_data[1].world_position = <<0, 0, 0>>
    /\ vertex_data[1].position = <<6, 5>>
    /\ vertex_data[5].screen_relative = 0
    /\ vertex_data[5].world_position = <<1, 2, 3>>
    /\ vertex_data[5].position = <<1, 2>>

\* C20: for a renderer built with a nonzero initial size, between calls the
\* index store holds at least as many elements as the vertex store.
C20_IndexCapacityAtLeastVertex ==
    initial_buffer_size > 0 /\ pc = "idle" =>
        buffer_len(index_buffer, SizeOfU32) >= buffer_len(vertex_buffer, SizeOfVertex)

\* built for 1 element, after a batch of one glyph: 4 vertices fit in 4, the
\* 6 indices needed 8
C20_Witness ==
    /\ initial_buffer_size = 1 /\ pc = "idle" /\ call.op = "render"
    /\ buffer_len(vertex_buffer, SizeOfVertex) = 4
    /\ buffer_len(index_buffer, SizeOfU32) = 8


\* the backend calls of the last call that are not replacements of a store
AfterReplacements ==
    SelectSeq(events, LAMBDA e : e.op # "create_buffer_raw")

\* the upload of a whole pending list at offset 0 into the store now installed
FullUpload(for) ==
    [op |-> "update_buffer", for |-> for,
     buffer |-> (IF for = "vertex" THEN vertex_buffer ELSE index_buffer),
     offset |-> 0,
     len |-> (IF for = "vertex" THEN call.vertex_count ELSE call.index_count)]

\* what C15 says of a render, in any of its states: replacements come first,
\* then the upload of all pending vertices and of all pending indices at
\* offset 0, then the parameters, then the draw, then the clear
C15_OrderSoFar ==
    call.op = "render" =>
        /\ \A i, j \in DOMAIN events :
              events[i].op = "create_buffer_raw" /\ events[j].op # "create_buffer_raw"
                  => i < j
        /\ pc # "idle" =>
              /\ Len(vertex_data) = call.vertex_count
              /\ Len(index_data) = call.index_count
        /\ pc \in {"grow_test", "grow_body", "index_check", "update_vertex"} =>
              AfterReplacements = << >>
        /\ pc = "update_index" => AfterReplacements = << FullUpload("vertex") >>
        /\ pc \in {"params", "draw"} =>
              AfterReplacements = << FullUpload("vertex"), FullUpload("index") >>
        /\ pc \in {"grow_test", "grow_body", "index_check", "update_vertex",
                   "update_index", "params"} => call.output = << >>
        /\ pc \in {"draw", "clear", "idle"} =>
              params = [model_view_proj |-> call.projection, screen_size |-> call.output]
        /\ pc \in {"clear", "idle"} =>
              /\ Len(AfterReplacements) = 3
              /\ SubSeq(AfterReplacements, 1, 2)
                   = << FullUpload("vertex"), FullUpload("index") >>
              /\ AfterReplacements[3].op = "draw"
        /\ pc = "idle" => vertex_data = << >> /\ index_data = << >>

\* C15: a backing store is replaced only inside render, and a replacement is
\* always followed in the same render, before its draw, by the upload of the
\* whole pending vertex list and the whole pending index list at offset 0;
\* render goes grow, upload, parameter update, draw, clear; an append
\* replaces no store.
C15_GrowOnlyBeforeFullUpload ==
    /\ []C15_OrderSoFar
    /\ [](IsAppend => events = << >>)
    /\ [][ vertex_buffer' # vertex_buffer \/ index_buffer' # index_buffer
             => call.op = "render" /\ call'.op = "render" /\ pc = "grow_test" ]_vars
    /\ [][ params' # params => call.op = "render" /\ pc = "params" ]_vars
    /\ [][ AppendStep => vertex_buffer' = vertex_buffer /\ index_buffer' = index_buffer ]_vars
    /\ []((/\ call.op = "render"
           /\ pc \in {"grow_test", "grow_body", "index_check", "update_vertex",
                      "update_index"}
           /\ Count("create_buffer_raw", "vertex")
                 + Count("create_buffer_raw", "index") > 0)
            => <>(/\ call.op = "render" /\ pc = "params" /\ Draws = {}
                  /\ AfterReplacements = << FullUpload("vertex"), FullUpload("index") >>))

\* both stores replaced, both lists of a batch of two glyphs uploaded, the
\* parameters not yet set and the draw not yet issued
C15_Witness ==
    /\ call.op = "render" /\ pc = "params"
    /\ Count("create_buffer_raw", "vertex") = 1
    /\ Count("create_buffer_raw", "index") = 1
    /\ Len(events) = 4
    /\ events[3] = FullUpload("vertex") /\ events[3].len = 8
    /\ events[4] = FullUpload("index") /\ events[4].len = 12

\* the draw of the last render, once issued
LastDraw == events[CHOOSE i \in Draws : TRUE]

\* C16: every index in the range of a draw, and every vertex such an index
\* names, was uploaded by the render that issues the draw; what an earlier
\* render left in a store is never referenced.
C16_DrawReadsOnlyThisRender ==
    call.op = "render" /\ pc \in {"clear", "idle"} =>
        /\ Draws # {}
        /\ \A i \in LastDraw.start .. (LastDraw.end - 1) :
              /\ i + 1 \in DOMAIN store.index
              /\ store.index[i + 1].by = "this"
              /\ store.index[i + 1].value + 1 \in DOMAIN store.vertex
              /\ store.vertex[store.index[i + 1].value + 1].by = "this"

\* a draw of one glyph from stores that still hold the second glyph of an
\* earlier, larger batch
C16_Witness ==
    /\ call.op = "render" /\ pc = "clear"
    /\ Draws # {} /\ LastDraw.end = 6
    /\ Len(store.vertex) >= 8 /\ Len(store.index) >= 12
    /\ store.vertex[4].by = "this" /\ store.vertex[5].by = "earlier"
    /\ store.index[6].by = "this" /\ store.index[7].by = "earlier"
    /\ store.index[12].by = "earlier"

\* C19: a render stores the size read from its output target and the
\* projection it was given in the parameters before it issues its draw: the
\* draw is issued with the values of its own render, never with what
\* construction or an earlier render left there.
C19_DrawUsesOwnParams ==
    /\ call.op = "render" =>
          /\ \A i \in Draws :
                /\ call.output \in OutputSizes
                /\ events[i].params = [model_view_proj |-> call.projection,
                                       screen_size |-> call.output]
          /\ pc = "draw" =>
                /\ call.output \in OutputSizes
                /\ params = [model_view_proj |-> call.projection,
                             screen_size |-> call.output]
    /\ call.op = "new" => Draws = {} /\ params = [model_view_proj |-> MAT4_ID,
                                                  screen_size |-> FrameSize]

\* the draw of a second render in a row, given a projection other than the
\* identity of construction and an output target of another size than the
\* frame size of construction
C19_Witness ==
    /\ call.op = "render" /\ pc = "clear" /\ call.after_render
    /\ call.projection # MAT4_ID /\ call.output = <<800, 600>>
    /\ Draws # {}
    /\ LastDraw.params.screen_size = <<800, 600>>
    /\ LastDraw.params.model_view_proj = call.projection


\* C13: when linking the program fails, new returns that error, no renderer
\* exists (nothing can be called on one) and the call has created no vertex
\* store, no index store and no sampler.
C13_LinkFailureReturnsError ==
    /\ [](pc = "new_err" =>
            /\ events = << [op |-> "link_program_source", result |-> call.result] >>
            /\ ~call.result.ok /\ call.result.err \in ProgramErrors
            /\ vertex_buffer = NoRenderer /\ index_buffer = NoRenderer
            /\ params = NoRenderer
            /\ store = [vertex |-> << >>, index |-> << >>])
    /\ [][ pc = "new" => pc' = "new_buffers" \/ pc' = "new_err" ]_vars
    /\ [][ pc # "new_err" ]_vars

\* new asked for stores of 2 elements and the link failed
C13_Witness ==
    /\ pc = "new_err" /\ initial_buffer_size = 2
    /\ call = [op |-> "new", result |-> [ok |-> FALSE, err |-> "ProgramError2"]]
    /\ Len(events) = 1

====
